---- MODULE Spec2Model ----
(***************************************************************************)
(* Model of the Omi AI chat plugin webhook relay (src/server.js).         *)
(*                                                                         *)
(* Strings are TLA+ strings, i.e. sequences of characters: Len, SubSeq and *)
(* \o act on them character by character, so that includes / indexOf /     *)
(* substring / trim / toLowerCase are modelled by what they compute.       *)
(*                                                                         *)
(* Node runs a handler without interruption between two awaits, so one     *)
(* action of the model is one such uninterrupted piece of the handler: the *)
(* code from the arrival of the request (or of the reply to an outbound    *)
(* call) up to the next outbound call or to the end of the handler.        *)
(***************************************************************************)
EXTENDS Integers, Sequences, FiniteSets, TLC

(***************************************************************************)
(* Bounds of the model.                                                    *)
(***************************************************************************)
MaxSegs == 2        \* segments per webhook body
MaxPolls == 2       \* "queued"/"in_progress" answers per poll loop
MaxToolCalls == 2   \* tool calls of one requires_action

(***************************************************************************)
(* JavaScript string primitives.                                           *)
(***************************************************************************)
\* One character of String.prototype.toLowerCase (ASCII letters).
LowerMap ==
    [c \in {"A","B","C","D","E","F","G","H","I","J","K","L","M",
            "N","O","P","Q","R","S","T","U","V","W","X","Y","Z"} |->
        CASE c = "A" -> "a" [] c = "B" -> "b" [] c = "C" -> "c" [] c = "D" -> "d"
          [] c = "E" -> "e" [] c = "F" -> "f" [] c = "G" -> "g" [] c = "H" -> "h"
          [] c = "I" -> "i" [] c = "J" -> "j" [] c = "K" -> "k" [] c = "L" -> "l"
          [] c = "M" -> "m" [] c = "N" -> "n" [] c = "O" -> "o" [] c = "P" -> "p"
          [] c = "Q" -> "q" [] c = "R" -> "r" [] c = "S" -> "s" [] c = "T" -> "t"
          [] c = "U" -> "u" [] c = "V" -> "v" [] c = "W" -> "w" [] c = "X" -> "x"
          [] c = "Y" -> "y" [] c = "Z" -> "z"]

LowerChar(c) == IF c \in DOMAIN LowerMap THEN LowerMap[c] ELSE c

RECURSIVE toLowerCase(_)
toLowerCase(s) ==
    IF Len(s) = 0 THEN ""
    ELSE LowerChar(SubSeq(s, 1, 1)) \o toLowerCase(SubSeq(s, 2, Len(s)))

\* s.includes(p)
includes(s, p) ==
    \E i \in 1..(Len(s) - Len(p) + 1) : SubSeq(s, i, i + Len(p) - 1) = p

\* s.indexOf(p): 0-based position of the first occurrence, -1 if none.
indexOf(s, p) ==
    IF includes(s, p)
    THEN (CHOOSE i \in 1..(Len(s) - Len(p) + 1) :
             /\ SubSeq(s, i, i + Len(p) - 1) = p
             /\ \A j \in 1..(i - 1) : SubSeq(s, j, j + Len(p) - 1) # p) - 1
    ELSE -1

\* s.substring(from) with a 0-based start; a start beyond the end gives "".
substring(s, from) ==
    IF from >= Len(s) THEN "" ELSE SubSeq(s, from + 1, Len(s))

WhiteSpace == {" ", "\t", "\n"}

RECURSIVE trimStart(_)
trimStart(s) ==
    IF Len(s) > 0 /\ SubSeq(s, 1, 1) \in WhiteSpace
    THEN trimStart(SubSeq(s, 2, Len(s)))
    ELSE s

RECURSIVE trimEnd(_)
trimEnd(s) ==
    IF Len(s) > 0 /\ SubSeq(s, Len(s), Len(s)) \in WhiteSpace
    THEN trimEnd(SubSeq(s, 1, Len(s) - 1))
    ELSE s

\* s.trim()
trim(s) == trimEnd(trimStart(s))

(***************************************************************************)
(* A segment of the body is an object; its text field is a string or is    *)
(* absent (segment.text is then undefined).                                *)
(***************************************************************************)
Seg(t) == [hasText |-> TRUE, text |-> t]
NoTextSeg == [hasText |-> FALSE, text |-> ""]

\* segs.map(s => s.text).join(' '): join writes undefined as "".
RECURSIVE joinTexts(_)
joinTexts(segs) ==
    IF Len(segs) = 0 THEN ""
    ELSE IF Len(segs) = 1 THEN Head(segs).text
    ELSE Head(segs).text \o " " \o joinTexts(Tail(segs))


(***************************************************************************)
(* Trigger detector (server.js 207-231).                                   *)
(***************************************************************************)
\* const fullTranscript = segments.map(segment => segment.text).join(' ').trim()
fullTranscript(segs) == trim(joinTexts(segs))

\* const transcriptLower = fullTranscript.toLowerCase()
transcriptLower(segs) == toLowerCase(fullTranscript(segs))

\* Mutant: the wake phrase is looked for by "omi" alone.
hasHeyOmi_omiOnly(lower) == includes(lower, "omi")

hasHeyOmi(lower) ==
    \/ includes(lower, "hey omi")
    \/ includes(lower, "hey, omi")
    \/ includes(lower, "hey omi,")
    \/ includes(lower, "hey, omi,")

helpKeywords ==
    <<"help", "what can you do", "how to use", "instructions", "guide",
      "what do you do", "how does this work", "what are the commands",
      "keywords", "trigger words", "how to talk to you">>

\* Mutant: the keyword "help" is missing from the list.
isAskingForHelp_withoutHelp(lower) ==
    \E k \in 2..Len(helpKeywords) : includes(lower, helpKeywords[k])

isAskingForHelp(lower) ==
    \E k \in 1..Len(helpKeywords) : includes(lower, helpKeywords[k])

(***************************************************************************)
(* Question extractor (server.js 251-287).                                 *)
(***************************************************************************)
heyOmiPatterns ==
    <<"hey, omi", "hey omi,", "hey, omi,", "hey omi", "Hey, Omi", "Hey Omi.", "Hey Omi,">>

\* The inner loop: the first pattern of the list that the lower-cased
\* segment text includes, as an index into heyOmiPatterns; 0 if none.
foundPattern(segmentText) ==
    IF \E k \in 1..Len(heyOmiPatterns) : includes(segmentText, heyOmiPatterns[k])
    THEN CHOOSE k \in 1..Len(heyOmiPatterns) :
            /\ includes(segmentText, heyOmiPatterns[k])
            /\ \A j \in 1..(k - 1) : ~includes(segmentText, heyOmiPatterns[j])
    ELSE 0

\* Mutant: the question is cut out of the lower-cased text.
questionAt_lowerCased(segs, i, k) ==
    LET pattern      == heyOmiPatterns[k]
        segmentText  == toLowerCase(segs[i].text)
        patternIndex == indexOf(segmentText, pattern)
        question     == trim(substring(segmentText, patternIndex + Len(pattern)))
    IN  IF question # ""
        THEN question
        ELSE trim(joinTexts(SubSeq(segs, i + 1, Len(segs))))

\* Mutant: the remaining segments start at the matched one.
questionAt_sliceFromCurrent(segs, i, k) ==
    LET pattern      == heyOmiPatterns[k]
        patternIndex == indexOf(toLowerCase(segs[i].text), pattern)
        question     == trim(substring(segs[i].text, patternIndex + Len(pattern)))
    IN  IF question # ""
        THEN question
        ELSE trim(joinTexts(SubSeq(segs, i, Len(segs))))

\* The body of "if (foundPattern)" for segment i, whose pattern is k.
questionAt(segs, i, k) ==
    LET pattern      == heyOmiPatterns[k]
        patternIndex == indexOf(toLowerCase(segs[i].text), pattern)
        question     == trim(substring(segs[i].text, patternIndex + Len(pattern)))
    IN  IF question # ""
        THEN question
        ELSE trim(joinTexts(SubSeq(segs, i + 1, Len(segs))))

\* The outer loop from segment i on.  A segment without text makes
\* segment.text.toLowerCase() throw a TypeError.
RECURSIVE extractFrom(_, _)
extractFrom(segs, i) ==
    IF i > Len(segs) THEN [threw |-> FALSE, question |-> ""]
    ELSE IF ~segs[i].hasText THEN [threw |-> TRUE, question |-> ""]
    ELSE LET k == foundPattern(toLowerCase(segs[i].text))
         IN  IF k # 0
             THEN [threw |-> FALSE, question |-> questionAt(segs, i, k)]
             ELSE extractFrom(segs, i + 1)

extractQuestion(segs) == extractFrom(segs, 1)

(***************************************************************************)
(* The webhook body.  session_id is a string or is absent; segments is     *)
(* absent, or something that is no array, or an array of segments.         *)
(***************************************************************************)
SessionIds == {"u1", "u2"}

\* Texts of the segments of the webhook requests: some text, a wake phrase
\* and a remainder, each of which can be missing; a wake phrase cut in two;
\* a wake phrase followed by white space; and a text with two wake phrases.
Prefixes == {"", "x "}
WakePhrases == {"", "hey omi", "Hey Omi,", "hey, omi", "Hey, Omi,"}
Remainders == {"", " y", " Help"}

WebhookTexts ==
    {p \o w \o s : p \in Prefixes, w \in WakePhrases, s \in Remainders}
    \cup {"hey", "omi y", "hey omi ", "hey omi y hey, omi z"}

WebhookSegments == {Seg(t) : t \in WebhookTexts} \cup {NoTextSeg}

SeqsUpTo(S, n) == UNION {[1..k -> S] : k \in 0..n}

Body(hasId, id, kind, segs) ==
    [has_session_id |-> hasId, session_id |-> id,
     segments_kind |-> kind, segments |-> segs]

\* Texts of the segments of the lists that are one segment longer.
LongTexts == {"x", " ", "hey omi", "Hey, Omi, Help"}

\* The bodies of the intake: every list of segments with a session id, and
\* every way of being invalid.
WebhookBodies ==
    {Body(TRUE, "u1", "array", segs) : segs \in SeqsUpTo(WebhookSegments, MaxSegs)}
    \cup {Body(TRUE, "u2", "array", segs) :
            segs \in [1..(MaxSegs + 1) -> {Seg(t) : t \in LongTexts}]}
    \cup {Body(hasId, "", "array", <<Seg(t)>>) :
            hasId \in BOOLEAN, t \in {"x", "Help", "hey omi y"}}
    \cup {Body(TRUE, id, kind, <<>>) :
            id \in SessionIds, kind \in {"missing", "not_array"}}
    \cup {Body(hasId, "", kind, <<>>) :
            hasId \in BOOLEAN, kind \in {"missing", "not_array"}}

\* Mutant: an empty session_id passes the validation.
invalidBody_emptyIdPasses(b) ==
    \/ ~b.has_session_id
    \/ b.segments_kind # "array"

\* if (!session_id || !segments || !Array.isArray(segments))
invalidBody(b) ==
    \/ ~b.has_session_id
    \/ b.session_id = ""
    \/ b.segments_kind # "array"

(***************************************************************************)
(* HTTP responses of the webhook: the status and the fields of the JSON    *)
(* body ("" for a field the body does not have).                           *)
(***************************************************************************)
Response(status, error, message, fields) ==
    [status |-> status, error |-> error, message |-> message,
     success |-> fields.success, question |-> fields.question,
     ai_response |-> fields.ai_response, omi_response |-> fields.omi_response,
     session_id |-> fields.session_id, help_response |-> fields.help_response]

NoFields ==
    [success |-> FALSE, question |-> "", ai_response |-> "", omi_response |-> "",
     session_id |-> "", help_response |-> ""]

BadRequest ==
    Response(400, "Missing required fields: session_id and segments array are required",
             "", NoFields)

helpMessage ==
    "Hi! I'm Omi, your AI assistant. To talk to me, start your message with \"Hey Omi\" or \"Hey, Omi\" followed by your question. For example: \"Hey Omi, what's the weather like?\" or \"Hey, Omi, can you help me with math?\""

HelpResponse ==
    Response(200, "", "Start your message with \"Hey Omi\" to get help from the AI assistant",
             [NoFields EXCEPT !.help_response = helpMessage])

IgnoredResponse == Response(200, "", "", NoFields)

NoQuestionResponse == Response(200, "", "Transcript ignored - no question provided", NoFields)

SuccessResponse(l) ==
    Response(200, "", l.aiResponse,
             [success |-> TRUE, question |-> l.question, ai_response |-> l.aiResponse,
              omi_response |-> l.omiResponse, session_id |-> l.body.session_id,
              help_response |-> ""])

\* The catch block of the handler (server.js 412-437).
ErrorResponse(message) ==
    IF includes(message, "API Error")
    THEN Response(500, "Omi API Error", message, NoFields)
    ELSE IF includes(message, "OMI_APP_ID not set") \/ includes(message, "OMI_APP_SECRET not set")
    THEN Response(500, "Configuration Error", message, NoFields)
    ELSE Response(500, "Internal Server Error", message, NoFields)

(***************************************************************************)
(* What the outbound services can answer.                                  *)
(***************************************************************************)
\* Texts produced by the model (assistant message or chat completion).
Answers == {"a1", "a2"}

\* Messages of the errors thrown by the OpenAI client.
OpenAIErrors == {"Connection error.", "401 Incorrect API key provided"}

RunStatuses ==
    {"queued", "in_progress", "completed", "requires_action",
     "failed", "cancelled", "expired"}

\* required_action.type of a run that requires action ("" : no required_action).
RequiredActionTypes == {"submit_tool_outputs", ""}

\* tool_calls of a required action: function name and JSON text of the arguments.
GoodArguments == "{\"query\":\"q\"}"
ToolCallKinds ==
    {[name |-> "searchWeb", arguments |-> GoodArguments],
     [name |-> "searchWeb", arguments |-> "{\"query\":"],
     [name |-> "getWeather", arguments |-> GoodArguments]}

WithIds(f) ==
    [i \in 1..Len(f) |->
        [id |-> "call_" \o ToString(i), name |-> f[i].name, arguments |-> f[i].arguments]]

ToolCallLists ==
    {WithIds(f) : f \in UNION {[1..k -> ToolCallKinds] : k \in 1..MaxToolCalls}}

\* Parsed answers of the search service: Abstract and RelatedTopics[0].Text.
SearchResults ==
    {[Abstract |-> "An abstract", RelatedTopic |-> ""],
     [Abstract |-> "", RelatedTopic |-> ""]}

\* results?.Abstract || results?.RelatedTopics?.[0]?.Text || "No relevant information found."
summary(results) ==
    IF results.Abstract # "" THEN results.Abstract
    ELSE IF results.RelatedTopic # "" THEN results.RelatedTopic
    ELSE "No relevant information found."

SearchFailedOutput == "Search failed. Please try again later."

\* Answers of the notification API: status code and body.
NotifyReplies ==
    {[status |-> 200, data |-> ""], [status |-> 299, data |-> "ok"],
     [status |-> 300, data |-> ""], [status |-> 401, data |-> "Unauthorized"]}

\* Messages of the errors of the https request to the notification API.
NetworkErrors == {"connect ECONNREFUSED"}

\* resolve(data ? JSON.parse(data) : {}), resolve({ raw: data }) when the
\* body is no JSON; the resolved object is written as its JSON text.
JsonTexts == {"{\"status\":\"sent\"}"}
parseNotifyBody(data) ==
    IF data = "" THEN "{}"
    ELSE IF data \in JsonTexts THEN data
    ELSE "{\"raw\":\"" \o data \o "\"}"

\* Mutant: redirects count as delivered.
statusOk_below400(statusCode) == statusCode >= 200 /\ statusCode < 400

\* if (res.statusCode >= 200 && res.statusCode < 300)
statusOk(statusCode) == statusCode >= 200 /\ statusCode < 300

\* reject(new Error(`API Error (${res.statusCode}): ${data}`))
apiErrorMessage(reply) ==
    "API Error (" \o ToString(reply.status) \o "): " \o reply.data

(***************************************************************************)
(* State.                                                                  *)
(***************************************************************************)
Reqs == {"r1", "r2"}   \* the handler invocations that can be in flight

VARIABLES
    assistant,   \* the module variable assistant: "null" or the assistant's id
    startup,     \* the listen callback: "creating" (awaits createAssistant) or "ready"
    env,         \* process.env: is OMI_APP_ID / OMI_APP_SECRET set
    h,           \* h[r]: the position and the locals of handler invocation r
    calls,       \* calls[r]: the outbound calls of r in the order they were issued
    responses,   \* responses[r]: the HTTP responses sent for r
    conversations,  \* the conversation context cache: session id -> turns
    appended     \* history: appended[s] is every turn ever appended for session s

vars == <<assistant, startup, env, h, calls, responses, conversations, appended>>

Idle ==
    [pc |-> "idle", body |-> Body(FALSE, "", "missing", <<>>), question |-> "",
     aiResponse |-> "", runStatus |-> "", required_action |-> "", toolCalls |-> <<>>,
     toolOutputs |-> <<>>, tc |-> 0, submitted |-> FALSE, polls |-> 0, threw |-> FALSE,
     omiReply |-> [status |-> 0, data |-> ""], omiResponse |-> ""]

\* An outbound call: operation, arguments, how it ended so far and the text
\* it returned.
Call(op, arg, uid) ==
    [op |-> op, arg |-> arg, uid |-> uid, result |-> "pending", value |-> ""]

\* The pending call of r is the last one of calls[r].
Settle(cs, result, value) ==
    [cs EXCEPT ![Len(cs)].result = result, ![Len(cs)].value = value]

(***************************************************************************)
(* Pieces of the handler.  A piece takes and gives the triple of the       *)
(* locals, the calls and the responses of one invocation.                  *)
(***************************************************************************)
St(l, cs, rs) == [l |-> l, cs |-> cs, rs |-> rs]

\* res.status(..).json(..), after which the handler returns.
Respond(st, resp) ==
    St([st.l EXCEPT !.pc = "done"], st.cs, Append(st.rs, resp))

\* Start an outbound call and await it.
Issue(st, op, arg, uid) ==
    St([st.l EXCEPT !.pc = op], Append(st.cs, Call(op, arg, uid)), st.rs)

\* Mutant: the catch goes on to the notification without a completion.
Fallback_noCompletion(st) ==
    IF ~env.OMI_APP_ID \/ ~env.OMI_APP_SECRET
    THEN Respond(st, ErrorResponse("OMI_APP_ID not set"))
    ELSE Issue(St([st.l EXCEPT !.threw = TRUE], st.cs, st.rs),
               "notification", st.l.aiResponse, st.l.body.session_id)

\* Mutant: the completion is asked with the (still empty) answer.
Fallback_wrongPrompt(st) ==
    Issue(St([st.l EXCEPT !.threw = TRUE], st.cs, st.rs),
          "chat.completions.create", st.l.aiResponse, "")

\* The inner catch (server.js 381-392): the assistant path threw, ask the
\* chat completion API.
Fallback(st) ==
    Issue(St([st.l EXCEPT !.threw = TRUE], st.cs, st.rs),
          "chat.completions.create", st.l.question, "")

\* Mutant: only OMI_APP_ID is checked before the request is made.
Notify_secretUnchecked(st) ==
    IF ~env.OMI_APP_ID THEN Respond(st, ErrorResponse("OMI_APP_ID not set"))
    ELSE Issue(st, "notification", st.l.aiResponse, st.l.body.session_id)

\* sendOmiNotification(session_id, aiResponse) up to the request (server.js
\* 66-101, called at 398); what it throws lands in the outer catch.
Notify(st) ==
    IF ~env.OMI_APP_ID THEN Respond(st, ErrorResponse("OMI_APP_ID not set"))
    ELSE IF ~env.OMI_APP_SECRET THEN Respond(st, ErrorResponse("OMI_APP_SECRET not set"))
    ELSE Issue(st, "notification", st.l.aiResponse, st.l.body.session_id)

\* JSON.parse(toolCall.function.arguments) followed by args.query
parsesToQuery(arguments) == arguments = GoodArguments

\* The tool-call loop from tool call i on, up to the next await (server.js 332-372).
RECURSIVE ToolLoop(_, _)
ToolLoop(st, i) ==
    IF i > Len(st.l.toolCalls)
    THEN IF Len(st.l.toolOutputs) > 0
         THEN Issue(st, "submitToolOutputs", "", "")
         ELSE Issue(st, "messages.list", "", "")
    ELSE LET toolCall == st.l.toolCalls[i]
         IN  IF toolCall.name # "searchWeb" THEN ToolLoop(st, i + 1)
             ELSE IF ~parsesToQuery(toolCall.arguments)
             THEN ToolLoop(St([st.l EXCEPT !.toolOutputs =
                                  Append(@, [tool_call_id |-> toolCall.id,
                                             output |-> SearchFailedOutput])],
                              st.cs, st.rs), i + 1)
             ELSE Issue(St([st.l EXCEPT !.tc = i], st.cs, st.rs),
                        "performWebSearch", "q", "")

\* Mutant: the check of the empty question is missing.
AfterExtract_noEmptyCheck(st, e) ==
    IF e.threw
    THEN Respond(st, ErrorResponse(
             "Cannot read properties of undefined (reading 'toLowerCase')"))
    ELSE Issue(St([st.l EXCEPT !.question = e.question], st.cs, st.rs),
               "threads.create", "", "")

\* The handler from the extracted question to its first await (server.js 289-305).
AfterExtract(st, e) ==
    IF e.threw
    THEN Respond(st, ErrorResponse(
             "Cannot read properties of undefined (reading 'toLowerCase')"))
    ELSE IF e.question = "" THEN Respond(st, NoQuestionResponse)
    ELSE Issue(St([st.l EXCEPT !.question = e.question], st.cs, st.rs),
               "threads.create", "", "")

\* Mutant: the help branch does not return, and the handler goes on to the
\* (empty) question.
Intake_helpFallsThrough(b) ==
    LET st == St([Idle EXCEPT !.body = b], <<>>, <<>>)
        lower == transcriptLower(b.segments)
    IN  IF invalidBody(b) THEN Respond(st, BadRequest)
        ELSE IF ~hasHeyOmi(lower)
        THEN IF isAskingForHelp(lower)
             THEN Respond(Respond(st, HelpResponse), NoQuestionResponse)
             ELSE Respond(st, IgnoredResponse)
        ELSE AfterExtract(st, extractQuestion(b.segments))

\* Mutant: the help keywords are tested before the wake phrase.
Intake_helpFirst(b) ==
    LET st == St([Idle EXCEPT !.body = b], <<>>, <<>>)
        lower == transcriptLower(b.segments)
    IN  IF invalidBody(b) THEN Respond(st, BadRequest)
        ELSE IF isAskingForHelp(lower) THEN Respond(st, HelpResponse)
        ELSE IF ~hasHeyOmi(lower) THEN Respond(st, IgnoredResponse)
        ELSE AfterExtract(st, extractQuestion(b.segments))

\* The synchronous start of the handler, up to its first await (server.js 193-305).
Intake(b) ==
    LET st == St([Idle EXCEPT !.body = b], <<>>, <<>>)
        lower == transcriptLower(b.segments)
    IN  IF invalidBody(b) THEN Respond(st, BadRequest)
        ELSE IF ~hasHeyOmi(lower)
        THEN IF isAskingForHelp(lower)
             THEN Respond(st, HelpResponse)
             ELSE Respond(st, IgnoredResponse)
        ELSE AfterExtract(st, extractQuestion(b.segments))

(***************************************************************************)
(* Requests of the specification of the whole handler: one for each way    *)
(* the intake can end, and two that are answered.                          *)
(***************************************************************************)
HandlerBodies ==
    {Body(FALSE, "", "array", <<Seg("hey omi x")>>),
     Body(TRUE, "u1", "not_array", <<>>),
     Body(TRUE, "u1", "array", <<Seg("x")>>),
     Body(TRUE, "u1", "array", <<Seg("Help")>>),
     Body(TRUE, "u1", "array", <<Seg("hey omi")>>),
     Body(TRUE, "u1", "array", <<NoTextSeg, Seg("hey omi x")>>),
     Body(TRUE, "u1", "array", <<Seg("Hey Omi, y")>>),
     Body(TRUE, "u2", "array", <<Seg("hey omi"), Seg("x")>>)}

(***************************************************************************)
(* The conversation context cache (spec 4.3): a process-wide mapping from  *)
(* session id to the list of the session's last turns.  The handler of     *)
(* server.js neither reads nor writes it.                                  *)
(***************************************************************************)
MaxTurns == 2       \* the configured cap of turns of one session
MaxAppends == 4     \* appends to the cache in one behaviour

NoConversations == [s \in {} |-> <<>>]

\* ConversationTurn: { question, answer, timestamp }
Turn(question, answer, timestamp) ==
    [question |-> question, answer |-> answer, timestamp |-> timestamp]

TurnQuestions == {"x", "y"}

\* get(sessionId): the existing list or an empty one.
get(ctxs, sessionId) ==
    IF sessionId \in DOMAIN ctxs THEN ctxs[sessionId] ELSE <<>>

\* Mutant: the list is not cut back to the cap.
append_noEviction(ctxs, sessionId, turn) ==
    [s \in (DOMAIN ctxs) \cup {sessionId} |->
        IF s = sessionId THEN Append(get(ctxs, sessionId), turn) ELSE ctxs[s]]

\* append(sessionId, turn): push the turn, evict the oldest if the cap is exceeded.
append(ctxs, sessionId, turn) ==
    LET pushed == Append(get(ctxs, sessionId), turn)
        kept   == IF Len(pushed) > MaxTurns THEN Tail(pushed) ELSE pushed
    IN  [s \in (DOMAIN ctxs) \cup {sessionId} |->
            IF s = sessionId THEN kept ELSE ctxs[s]]

(***************************************************************************)
(* Actions.                                                                *)
(***************************************************************************)
Init ==
    /\ assistant = "null"
    /\ startup = "creating"
    /\ env \in [OMI_APP_ID : BOOLEAN, OMI_APP_SECRET : BOOLEAN]
    /\ h = [r \in Reqs |-> Idle]
    /\ calls = [r \in Reqs |-> <<>>]
    /\ responses = [r \in Reqs |-> <<>>]
    /\ conversations = NoConversations
    /\ appended = [s \in SessionIds |-> <<>>]

\* Invocation r goes on as st says.
Become(r, st) ==
    /\ h' = [h EXCEPT ![r] = st.l]
    /\ calls' = [calls EXCEPT ![r] = st.cs]
    /\ responses' = [responses EXCEPT ![r] = st.rs]
    /\ UNCHANGED <<assistant, startup, env, conversations, appended>>

\* Invocation r as it is when its pending call ended with the given result.
Got(r, result, value) == St(h[r], Settle(calls[r], result, value), responses[r])
Cur(r, result) == Got(r, result, "")

With(st, l) == St(l, st.cs, st.rs)

\* createAssistant (server.js 31-58), awaited by the listen callback (477).
CreateAssistantOk ==
    /\ startup = "creating"
    /\ assistant' = "asst_1"
    /\ startup' = "ready"
    /\ UNCHANGED <<env, h, calls, responses, conversations, appended>>

CreateAssistantFail ==
    /\ startup = "creating"
    /\ startup' = "ready"
    /\ UNCHANGED <<assistant, env, h, calls, responses, conversations, appended>>

\* A POST /omi-webhook with a body of the set bodies arrives (server.js 193-305).
Receive(r, bodies) ==
    /\ h[r].pc = "idle"
    /\ \E b \in bodies : Become(r, Intake(b))

\* openai.beta.threads.create() returns or throws (server.js 305-311).
ThreadsCreateReply(r) ==
    /\ h[r].pc = "threads.create"
    /\ \/ Become(r, Issue(Cur(r, "ok"), "messages.create", h[r].question, ""))
       \/ Become(r, Fallback(Cur(r, "error")))

\* Mutant: runs.create is outside the try, and the TypeError of a null
\* assistant reaches the outer catch.
MessagesCreateReply_noAssistantIs500(r) ==
    /\ h[r].pc = "messages.create"
    /\ \/ IF assistant = "null"
          THEN Become(r, Respond(Cur(r, "ok"), ErrorResponse(
                   "Cannot read properties of null (reading 'id')")))
          ELSE Become(r, Issue(Cur(r, "ok"), "runs.create", assistant, ""))
       \/ Become(r, Fallback(Cur(r, "error")))

\* threads.messages.create returns or throws (server.js 308-316); reading
\* assistant.id of a null assistant throws a TypeError.
MessagesCreateReply(r) ==
    /\ h[r].pc = "messages.create"
    /\ \/ IF assistant = "null"
          THEN Become(r, Fallback(Cur(r, "ok")))
          ELSE Become(r, Issue(Cur(r, "ok"), "runs.create", assistant, ""))
       \/ Become(r, Fallback(Cur(r, "error")))

\* Mutant: a run that could not be created is created again.
RunsCreateReply_retries(r) ==
    /\ h[r].pc = "runs.create"
    /\ \/ Become(r, Issue(Cur(r, "ok"), "runs.retrieve", "", ""))
       \/ Become(r, Issue(Cur(r, "error"), "runs.create", assistant, ""))

\* threads.runs.create returns or throws (server.js 314-319).
RunsCreateReply(r) ==
    /\ h[r].pc = "runs.create"
    /\ \/ Become(r, Issue(Cur(r, "ok"), "runs.retrieve", "", ""))
       \/ Become(r, Fallback(Cur(r, "error")))

\* Mutant: the poll loops go on for "in_progress" only.
AfterRetrieve_queuedLeaves(st, status, type, toolCalls) ==
    LET l == [st.l EXCEPT !.runStatus = status, !.required_action = type]
    IN  IF status = "in_progress"
        THEN Issue(With(st, [l EXCEPT !.polls = @ + 1]), "runs.retrieve", "", "")
        ELSE IF ~l.submitted /\ status = "requires_action" /\ type = "submit_tool_outputs"
        THEN ToolLoop(With(st, [l EXCEPT !.toolCalls = toolCalls, !.toolOutputs = <<>>]), 1)
        ELSE Issue(With(st, l), "messages.list", "", "")

\* What the handler does with a retrieved run (server.js 319-376).
AfterRetrieve(st, status, type, toolCalls) ==
    LET l == [st.l EXCEPT !.runStatus = status, !.required_action = type]
    IN  IF status \in {"in_progress", "queued"}
        THEN Issue(With(st, [l EXCEPT !.polls = @ + 1]), "runs.retrieve", "", "")
        ELSE IF ~l.submitted /\ status = "requires_action" /\ type = "submit_tool_outputs"
        THEN ToolLoop(With(st, [l EXCEPT !.toolCalls = toolCalls, !.toolOutputs = <<>>]), 1)
        ELSE Issue(With(st, l), "messages.list", "", "")

\* threads.runs.retrieve returns a run or throws, in either poll loop
\* (server.js 319-323 and 367-371).
RunsRetrieveReply(r) ==
    /\ h[r].pc = "runs.retrieve"
    /\ \/ \E status \in RunStatuses \ {"requires_action"} :
            /\ status \in {"in_progress", "queued"} => h[r].polls < MaxPolls
            /\ Become(r, AfterRetrieve(Cur(r, "ok"), status, "", <<>>))
       \/ Become(r, AfterRetrieve(Cur(r, "ok"), "requires_action", "", <<>>))
       \/ \E toolCalls \in ToolCallLists :
            Become(r, AfterRetrieve(Cur(r, "ok"), "requires_action",
                                    "submit_tool_outputs", toolCalls))
       \/ Become(r, Fallback(Cur(r, "error")))

\* Mutant: a failing search is not caught at the tool call and ends the
\* assistant path.
WebSearchReply_errorAborts(r) ==
    /\ h[r].pc = "performWebSearch"
    /\ LET id == h[r].toolCalls[h[r].tc].id
           Push(st, output) ==
               With(st, [st.l EXCEPT !.toolOutputs =
                            Append(@, [tool_call_id |-> id, output |-> output])])
       IN  \/ \E results \in SearchResults :
                Become(r, ToolLoop(Push(Cur(r, "ok"), summary(results)), h[r].tc + 1))
           \/ Become(r, Fallback(Cur(r, "error")))

\* performWebSearch(query) resolves or rejects (server.js 339-358), and the
\* tool-call loop goes on.
WebSearchReply(r) ==
    /\ h[r].pc = "performWebSearch"
    /\ LET id == h[r].toolCalls[h[r].tc].id
           Push(st, output) ==
               With(st, [st.l EXCEPT !.toolOutputs =
                            Append(@, [tool_call_id |-> id, output |-> output])])
       IN  \/ \E results \in SearchResults :
                Become(r, ToolLoop(Push(Cur(r, "ok"), summary(results)), h[r].tc + 1))
           \/ Become(r, ToolLoop(Push(Cur(r, "error"), SearchFailedOutput), h[r].tc + 1))

\* threads.runs.submitToolOutputs returns or throws (server.js 362-367).
SubmitReply(r) ==
    /\ h[r].pc = "submitToolOutputs"
    /\ \/ LET st == Cur(r, "ok")
          IN  Become(r, Issue(With(st, [st.l EXCEPT !.submitted = TRUE, !.polls = 0]),
                              "runs.retrieve", "", ""))
       \/ Become(r, Fallback(Cur(r, "error")))

\* threads.messages.list returns or throws (server.js 376-398).  The newest
\* message of the thread is the assistant's when the run completed, else
\* the user's own; a message without text content makes the read throw.
MessagesListReply(r) ==
    /\ h[r].pc = "messages.list"
    /\ \/ \E value \in (IF h[r].runStatus = "completed" THEN Answers ELSE {h[r].question}) :
            LET st == Got(r, "ok", value)
            IN  Become(r, Notify(With(st, [st.l EXCEPT !.aiResponse = value])))
       \/ Become(r, Fallback(Cur(r, "ok")))
       \/ Become(r, Fallback(Cur(r, "error")))

\* Mutant: a failed completion is tried again.
CompletionFailed_retries(st, message) ==
    Issue(st, "chat.completions.create", st.l.question, "")

\* Mutant: the catch logs the failure and sends no response.
CompletionFailed_swallowed(st, message) ==
    St([st.l EXCEPT !.pc = "swallowed"], st.cs, st.rs)

\* Mutant: the failure of the completion is reported to the user.
CompletionFailed_notifies(st, message) ==
    Issue(st, "notification", message, st.l.body.session_id)

\* The fallback completion threw: the outer catch answers (server.js 412-437).
CompletionFailed(st, message) == Respond(st, ErrorResponse(message))

\* The fallback openai.chat.completions.create returns or throws
\* (server.js 384-398; a throw lands in the outer catch, 412-437).
CompletionReply(r) ==
    /\ h[r].pc = "chat.completions.create"
    /\ \/ \E content \in Answers :
            LET st == Got(r, "ok", content)
            IN  Become(r, Notify(With(st, [st.l EXCEPT !.aiResponse = content])))
       \/ \E message \in OpenAIErrors :
            Become(r, CompletionFailed(Cur(r, "error"), message))

\* Mutant: question is a variable of the module, written by every request;
\* the response reports what the other request wrote.
NotifyReply_sharedQuestion(r) ==
    /\ h[r].pc = "notification"
    /\ \/ \E reply \in NotifyReplies :
            IF statusOk(reply.status)
            THEN LET st == Cur(r, "ok")
                     l  == [st.l EXCEPT !.omiReply = reply,
                                        !.omiResponse = parseNotifyBody(reply.data)]
                     other == CHOOSE q \in Reqs : q # r
                 IN  Become(r, Respond(With(st, l),
                                       SuccessResponse([l EXCEPT !.question = h[other].question])))
            ELSE LET st == Cur(r, "error")
                 IN  Become(r, Respond(With(st, [st.l EXCEPT !.omiReply = reply]),
                                       ErrorResponse(apiErrorMessage(reply))))
       \/ \E message \in NetworkErrors :
            Become(r, Respond(Cur(r, "error"), ErrorResponse(message)))

\* The notification API answers, or the request fails (server.js 85-100),
\* and the handler ends (398-437).
NotifyReply(r) ==
    /\ h[r].pc = "notification"
    /\ \/ \E reply \in NotifyReplies :
            IF statusOk(reply.status)
            THEN LET st == Cur(r, "ok")
                     l  == [st.l EXCEPT !.omiReply = reply,
                                        !.omiResponse = parseNotifyBody(reply.data)]
                 IN  Become(r, Respond(With(st, l), SuccessResponse(l)))
            ELSE LET st == Cur(r, "error")
                 IN  Become(r, Respond(With(st, [st.l EXCEPT !.omiReply = reply]),
                                       ErrorResponse(apiErrorMessage(reply))))
       \/ \E message \in NetworkErrors :
            Become(r, Respond(Cur(r, "error"), ErrorResponse(message)))

\* The handler has returned; the next request can take its place.
Finish(r) ==
    /\ h[r].pc = "done"
    /\ h' = [h EXCEPT ![r] = Idle]
    /\ calls' = [calls EXCEPT ![r] = <<>>]
    /\ responses' = [responses EXCEPT ![r] = <<>>]
    /\ UNCHANGED <<assistant, startup, env, conversations, appended>>

Reply(r) ==
    \/ ThreadsCreateReply(r)
    \/ MessagesCreateReply(r)
    \/ RunsCreateReply(r)
    \/ RunsRetrieveReply(r)
    \/ WebSearchReply(r)
    \/ SubmitReply(r)
    \/ MessagesListReply(r)
    \/ CompletionReply(r)
    \/ NotifyReply(r)

(***************************************************************************)
(* Spec: the whole handler, one request at a time.                         *)
(***************************************************************************)
Next ==
    \/ CreateAssistantOk
    \/ CreateAssistantFail
    \/ Receive("r1", HandlerBodies)
    \/ Reply("r1")
    \/ Finish("r1")

Spec == Init /\ [][Next]_vars

(***************************************************************************)
(* SpecIntake: the start of the handler up to its first await, on every    *)
(* body of WebhookBodies.                                                  *)
(***************************************************************************)
InitIntake == Init /\ env.OMI_APP_ID /\ env.OMI_APP_SECRET

NextIntake ==
    \/ Receive("r1", WebhookBodies)
    \/ Finish("r1")

SpecIntake == InitIntake /\ [][NextIntake]_vars

(***************************************************************************)
(* SpecFollowUp: two requests one after the other, the second one received *)
(* when the first one was answered, while there is no assistant (it is not *)
(* created yet, or its creation failed).                                   *)
(***************************************************************************)
FirstBodies ==
    {Body(TRUE, "u1", "array", <<Seg("Hey Omi, y")>>),
     Body(TRUE, "u1", "array", <<Seg("Hey Omi, Help")>>)}

FollowUpBodies ==
    {Body(TRUE, "u1", "array", <<Seg("hey omi x")>>),
     Body(TRUE, "u2", "array", <<Seg("hey omi x")>>),
     Body(TRUE, "u1", "array", <<Seg("x")>>)}

FollowUp ==
    /\ h["r1"].pc = "done"
    /\ Receive("r2", FollowUpBodies)

NextFollowUp ==
    \/ CreateAssistantFail
    \/ Receive("r1", FirstBodies)
    \/ FollowUp
    \/ \E r \in Reqs :
        \/ ThreadsCreateReply(r)
        \/ MessagesCreateReply(r)
        \/ CompletionReply(r)
        \/ NotifyReply(r)

SpecFollowUp == InitIntake /\ [][NextFollowUp]_vars

(***************************************************************************)
(* SpecConcurrent: two requests in flight at the same time, their pieces   *)
(* interleaved in every order, while there is no assistant.                *)
(***************************************************************************)
ConcurrentBodies ==
    {Body(TRUE, "u1", "array", <<Seg("Hey Omi, y")>>),
     Body(TRUE, "u2", "array", <<Seg("hey omi x")>>)}

NextConcurrent ==
    \/ CreateAssistantFail
    \/ \E r \in Reqs :
        \/ Receive(r, ConcurrentBodies)
        \/ ThreadsCreateReply(r)
        \/ MessagesCreateReply(r)
        \/ CompletionReply(r)
        \/ NotifyReply(r)

SpecConcurrent == InitIntake /\ [][NextConcurrent]_vars

(***************************************************************************)
(* SpecLive: one request with the whole handler, where every outbound call *)
(* that is awaited gets its reply or its failure (weak fairness of the     *)
(* replies) and the run leaves "queued"/"in_progress" after at most        *)
(* MaxPolls polls of a loop.                                               *)
(***************************************************************************)
LiveBodies ==
    {Body(TRUE, "u1", "array", <<Seg("Hey Omi, y")>>),
     Body(TRUE, "u1", "array", <<Seg("x")>>)}

NextLive ==
    \/ CreateAssistantOk
    \/ Receive("r1", LiveBodies)
    \/ Reply("r1")

SpecLive == InitIntake /\ [][NextLive]_vars /\ WF_vars(Reply("r1"))

(***************************************************************************)
(* The axios-based variants of the webhook: the 'hey omi'-only variant     *)
(* (unnamed/part_002) and the legacy variant with transcript and user_id   *)
(* (unnamed/part_001, 340-500).  Both ask the chat completion, post the    *)
(* notification with axios and share the catch block.                      *)
(***************************************************************************)
\* res.status(..).json(..) of the variants ("" / 0 for a field the body lacks).
AxiosResponse(status, error, message) ==
    [status |-> status, error |-> error, message |-> message,
     details |-> "",
     success |-> FALSE, question |-> "", ai_response |-> "", omi_status |-> 0,
     session_id |-> ""]

AxiosSuccess(l, session_id) ==
    [AxiosResponse(200, "", "Question processed and response sent to Omi")
        EXCEPT !.success = TRUE, !.question = l.question, !.ai_response = l.aiResponse,
               !.omi_status = l.omiReply.status, !.session_id = session_id]

\* The body of the legacy variant: { transcript, user_id }, each of which can be absent.
LegacyBody(hasTranscript, transcript, hasUserId, user_id) ==
    [has_transcript |-> hasTranscript, transcript |-> transcript,
     has_user_id |-> hasUserId, user_id |-> user_id]

IsLegacy(b) == "transcript" \in DOMAIN b

\* The user the notification goes to: session_id, or user_id in the legacy variant.
UserOf(b) == IF IsLegacy(b) THEN b.user_id ELSE b.session_id

\* The number added to the index of 'hey omi' (part_002 line 60, part_001 line 386).
WakeOffset == 8

\* The body of "if (segmentText.includes('hey omi'))" for segment i (part_002 58-73).
axiosQuestionAt(segs, i) ==
    LET heyOmiIndex == indexOf(toLowerCase(segs[i].text), "hey omi")
        question    == trim(substring(segs[i].text, heyOmiIndex + WakeOffset))
    IN  IF question # ""
        THEN question
        ELSE trim(joinTexts(SubSeq(segs, i + 1, Len(segs))))

\* The loop over the segments from segment i on (part_002 55-74).
RECURSIVE axiosExtractFrom(_, _)
axiosExtractFrom(segs, i) ==
    IF i > Len(segs) THEN [threw |-> FALSE, question |-> ""]
    ELSE IF ~segs[i].hasText THEN [threw |-> TRUE, question |-> ""]
    ELSE IF includes(toLowerCase(segs[i].text), "hey omi")
    THEN [threw |-> FALSE, question |-> axiosQuestionAt(segs, i)]
    ELSE axiosExtractFrom(segs, i + 1)

\* transcript.toLowerCase().startsWith('hey omi')
startsWithHeyOmi(transcript) ==
    Len(transcript) >= 7 /\ toLowerCase(SubSeq(transcript, 1, 7)) = "hey omi"

\* The last branch of the catch: neither error.response nor error.request
\* (part_002 154-160).
AxiosOtherError(st, message) ==
    Respond(st, AxiosResponse(500, "Internal Server Error", message))

\* The first branch of the catch: error.response is set (part_002 134-146,
\* part_001 443-449).
AxiosApiError(st, reply) ==
    Respond(st, [AxiosResponse(reply.status, "API Error", "") EXCEPT !.details = reply.data])

\* The handler from the question to its first await (part_002 76-86).
AxiosAfterExtract(st, e) ==
    IF e.threw
    THEN AxiosOtherError(st, "Cannot read properties of undefined (reading 'toLowerCase')")
    ELSE IF e.question = ""
    THEN Respond(st, AxiosResponse(200, "", "Transcript ignored - no question provided"))
    ELSE Issue(St([st.l EXCEPT !.question = e.question], st.cs, st.rs),
               "chat.completions.create", e.question, "")

\* The start of the 'hey omi'-only handler, up to its first await (part_002 24-86).
AxiosIntake(b) ==
    LET st == St([Idle EXCEPT !.body = b], <<>>, <<>>)
    IN  IF invalidBody(b)
        THEN Respond(st, AxiosResponse(400,
                 "Missing required fields: session_id and segments array are required", ""))
        ELSE IF ~includes(transcriptLower(b.segments), "hey omi")
        THEN Respond(st, AxiosResponse(200, "",
                 "Transcript ignored - does not contain \"hey omi\""))
        ELSE AxiosAfterExtract(st, axiosExtractFrom(b.segments, 1))

\* The start of the legacy handler, up to its first await (part_001 363-398).
LegacyIntake(b) ==
    LET st == St([Idle EXCEPT !.body = b], <<>>, <<>>)
    IN  IF ~b.has_transcript \/ b.transcript = "" \/ ~b.has_user_id \/ b.user_id = ""
        THEN Respond(st, AxiosResponse(400,
                 "Missing required fields: transcript and user_id are required", ""))
        ELSE IF ~startsWithHeyOmi(b.transcript)
        THEN Respond(st, AxiosResponse(200, "",
                 "Transcript ignored - does not start with \"hey omi\""))
        ELSE AxiosAfterExtract(st,
                 [threw |-> FALSE, question |-> trim(substring(b.transcript, WakeOffset))])

\* Texts of the requests of the variants.
AxiosTexts == {"x", "hey omi", "hey omi y", "Hey Omi, y", "hey omiy", "x hey omi  y"}

AxiosBodies ==
    {Body(TRUE, "u1", "array", segs) :
        segs \in SeqsUpTo({Seg(t) : t \in AxiosTexts} \cup {NoTextSeg}, MaxSegs)}
    \cup {Body(FALSE, "", "array", <<Seg("hey omi y")>>),
          Body(TRUE, "u1", "not_array", <<>>)}

LegacyBodies ==
    {LegacyBody(TRUE, t, TRUE, "u1") : t \in AxiosTexts}
    \cup {LegacyBody(FALSE, "", TRUE, "u1"), LegacyBody(TRUE, "hey omi y", FALSE, "")}

AxiosReceive(r) ==
    /\ h[r].pc = "idle"
    /\ \E b \in AxiosBodies : Become(r, AxiosIntake(b))

LegacyReceive(r) ==
    /\ h[r].pc = "idle"
    /\ \E b \in LegacyBodies : Become(r, LegacyIntake(b))

\* openai.chat.completions.create returns or throws (part_002 86-116); the
\* error of the OpenAI client has no response and no request property.
AxiosCompletionReply(r) ==
    /\ h[r].pc = "chat.completions.create"
    /\ \/ \E content \in Answers :
            LET st == Got(r, "ok", content)
            IN  Become(r, Issue(With(st, [st.l EXCEPT !.aiResponse = content]),
                                "axios.post", content, UserOf(h[r].body)))
       \/ \E message \in OpenAIErrors :
            Become(r, AxiosOtherError(Cur(r, "error"), message))

\* axios.post resolves for a status in 200..299 and rejects with
\* error.response otherwise, or with error.request when there was no answer
\* (part_002 106-153).
AxiosNotifyReply(r) ==
    /\ h[r].pc = "axios.post"
    /\ \/ \E reply \in NotifyReplies :
            IF statusOk(reply.status)
            THEN LET st == Cur(r, "ok")
                     l  == [st.l EXCEPT !.omiReply = reply]
                 IN  Become(r, Respond(With(st, l),
                        AxiosSuccess(l, IF IsLegacy(l.body) THEN "" ELSE l.body.session_id)))
            ELSE LET st == Cur(r, "error")
                 IN  Become(r, AxiosApiError(With(st, [st.l EXCEPT !.omiReply = reply]), reply))
       \/ Become(r, Respond(Cur(r, "error"),
                AxiosResponse(500, "Network Error", "Failed to make request to external API")))

NextAxios ==
    \/ AxiosReceive("r1")
    \/ LegacyReceive("r1")
    \/ AxiosCompletionReply("r1")
    \/ AxiosNotifyReply("r1")
    \/ Finish("r1")

SpecAxios == InitIntake /\ [][NextAxios]_vars

(***************************************************************************)
(* SpecCache: turns are appended to the conversation context cache.        *)
(***************************************************************************)
\* The appends so far, as (session, position) pairs.
Appends == {p \in SessionIds \X (1..MaxAppends) : p[2] <= Len(appended[p[1]])}

\* The clock reading of the last append (0 before the first one).
LastTimestamp ==
    IF Appends = {} THEN 0
    ELSE LET T == {appended[p[1]][p[2]].timestamp : p \in Appends}
         IN  CHOOSE t \in T : \A u \in T : u <= t

\* A turn is appended for a session after a completion (spec 3, 4.3); the
\* clock has advanced since the last append or it has not.
AppendTurn ==
    /\ Cardinality(Appends) < MaxAppends
    /\ \E sessionId \in SessionIds, question \in TurnQuestions,
          timestamp \in {LastTimestamp, LastTimestamp + 1} :
            LET turn == Turn(question, "a1", timestamp)
            IN  /\ conversations' = append(conversations, sessionId, turn)
                /\ appended' = [appended EXCEPT ![sessionId] = Append(@, turn)]
    /\ UNCHANGED <<assistant, startup, env, h, calls, responses>>

NextCache == AppendTurn

SpecCache == InitIntake /\ [][NextCache]_vars

(***************************************************************************)
(* Vocabulary of the properties.                                           *)
(***************************************************************************)
WakeVariants == {"hey omi", "hey, omi", "hey omi,", "hey, omi,"}

HelpWords ==
    {"help", "what can you do", "how to use", "instructions", "guide",
     "what do you do", "how does this work", "what are the commands",
     "keywords", "trigger words", "how to talk to you"}

TextOf(seg) == IF seg.hasText THEN seg.text ELSE ""

\* The texts of the segments from..Len(segs), joined with single spaces.
RECURSIVE SpaceJoined(_, _)
SpaceJoined(segs, from) ==
    IF from > Len(segs) THEN ""
    ELSE IF from = Len(segs) THEN TextOf(segs[from])
    ELSE TextOf(segs[from]) \o " " \o SpaceJoined(segs, from + 1)

ContainsWake(s) == LET lower == toLowerCase(s) IN \E v \in WakeVariants : includes(lower, v)
ContainsHelp(s) == LET lower == toLowerCase(s) IN \E k \in HelpWords : includes(lower, k)

ValidBody(b) == b.has_session_id /\ b.session_id # "" /\ b.segments_kind = "array"
WellFormed(segs) == \A i \in 1..Len(segs) : segs[i].hasText

Handled(r) == h[r].pc # "idle"
AnsweredWith(r, resp) == h[r].pc = "done" /\ responses[r] = <<resp>>
NoOutboundCall(r) == calls[r] = <<>>
CallsOf(r, op) == {k \in 1..Len(calls[r]) : calls[r][k].op = op}

C2_HelpWithoutWake ==
    \A r \in Reqs :
        LET b == h[r].body
            transcript == SpaceJoined(b.segments, 1)
        IN  (Handled(r) /\ ValidBody(b)
             /\ ContainsHelp(transcript) /\ ~ContainsWake(transcript))
            => (AnsweredWith(r, HelpResponse) /\ NoOutboundCall(r))

C2_Witness ==
    \E r \in Reqs :
        /\ ValidBody(h[r].body)
        /\ ContainsHelp(SpaceJoined(h[r].body.segments, 1))
        /\ ~ContainsWake(SpaceJoined(h[r].body.segments, 1))
        /\ AnsweredWith(r, HelpResponse)
        /\ responses[r][1].status = 200
        /\ responses[r][1].help_response = helpMessage

(***************************************************************************)
(* The segment the extractor stops at, and what it matches there.          *)
(***************************************************************************)
WakeSegments(segs) == {i \in 1..Len(segs) : ContainsWake(TextOf(segs[i]))}

Min(S) == CHOOSE i \in S : \A j \in S : i <= j

\* Every segment the scan reads has a text.
Scannable(segs) ==
    LET W == WakeSegments(segs)
    IN  \A i \in 1..Len(segs) : (W = {} \/ i <= Min(W)) => segs[i].hasText

\* The wake-phrase occurrences of a text: variant and 0-based position.
Occurrences(text) ==
    LET lower == toLowerCase(text)
    IN  {o \in WakeVariants \X (0..Len(text)) :
            /\ o[2] + Len(o[1]) <= Len(text)
            /\ SubSeq(lower, o[2] + 1, o[2] + Len(o[1])) = o[1]}

\* The trimmed text behind the occurrence o.
RemainderAfter(text, o) == trim(substring(text, o[2] + Len(o[1])))

\* The occurrence the extractor matches in a text that contains a variant.
Matched(text) ==
    LET lower == toLowerCase(text)
        pattern == heyOmiPatterns[foundPattern(lower)]
    IN  <<pattern, indexOf(lower, pattern)>>

\* The text contains a wake-phrase variant, and the matched one is followed
\* by non-empty text.
WakeWithText(text) ==
    ContainsWake(text) /\ RemainderAfter(text, Matched(text)) # ""

(***************************************************************************)
(* C3, as stated: if some segment contains a wake-phrase variant followed  *)
(* by non-empty text, the question is the trimmed remainder of the first   *)
(* such segment behind the matched substring.                              *)
(***************************************************************************)
C3_FirstSegmentWithText ==
    \A r \in Reqs :
        LET segs == h[r].body.segments
            S == {i \in 1..Len(segs) : WakeWithText(TextOf(segs[i]))}
        IN  (Handled(r) /\ ValidBody(h[r].body) /\ WellFormed(segs) /\ S # {})
            => h[r].question = RemainderAfter(segs[Min(S)].text, Matched(segs[Min(S)].text))

(***************************************************************************)
(* C3, amended: if the first segment that contains a wake-phrase variant   *)
(* has non-empty text behind the matched substring, the question is the    *)
(* trimmed remainder of that segment's original text behind the matched    *)
(* substring, which is an occurrence of a wake-phrase variant.             *)
(***************************************************************************)
C3_RemainderOfFirstWakeSegment ==
    \A r \in Reqs :
        LET segs == h[r].body.segments
            i == Min(WakeSegments(segs))
        IN  (Handled(r) /\ ValidBody(h[r].body) /\ Scannable(segs)
             /\ WakeSegments(segs) # {}
             /\ RemainderAfter(segs[i].text, Matched(segs[i].text)) # "")
            => /\ Matched(segs[i].text) \in Occurrences(segs[i].text)
               /\ h[r].question = RemainderAfter(segs[i].text, Matched(segs[i].text))

C3_Witness ==
    \E r \in Reqs :
        LET segs == h[r].body.segments
        IN  /\ ValidBody(h[r].body) /\ WellFormed(segs)
            /\ WakeSegments(segs) # {}
            /\ Min(WakeSegments(segs)) = MaxSegs
            /\ Matched(segs[MaxSegs].text)[2] > 0
            /\ h[r].question = RemainderAfter(segs[MaxSegs].text, Matched(segs[MaxSegs].text))
            /\ h[r].question # toLowerCase(h[r].question)
            /\ h[r].pc = "threads.create"

(***************************************************************************)
(* C4: if the first segment that contains a wake-phrase variant has an     *)
(* empty remainder behind the matched substring, the question is the text  *)
(* of all later segments joined with single spaces and trimmed; earlier    *)
(* segments contribute nothing.                                            *)
(***************************************************************************)
C4_LaterSegmentsJoined ==
    \A r \in Reqs :
        LET segs == h[r].body.segments
            i == Min(WakeSegments(segs))
        IN  (Handled(r) /\ ValidBody(h[r].body) /\ Scannable(segs)
             /\ WakeSegments(segs) # {}
             /\ RemainderAfter(segs[i].text, Matched(segs[i].text)) = "")
            => h[r].question = trim(SpaceJoined(segs, i + 1))

C4_Witness ==
    \E r \in Reqs :
        LET segs == h[r].body.segments
            i == Min(WakeSegments(segs))
        IN  /\ ValidBody(h[r].body) /\ WellFormed(segs)
            /\ WakeSegments(segs) # {}
            /\ i > 1 /\ i < Len(segs)
            /\ trim(segs[1].text) # ""
            /\ RemainderAfter(segs[i].text, Matched(segs[i].text)) = ""
            /\ h[r].question = trim(SpaceJoined(segs, i + 1))
            /\ h[r].question # ""
            /\ h[r].pc = "threads.create"

(***************************************************************************)
(* C5: if a wake phrase is detected and no non-empty question can be       *)
(* extracted (no segment contains a variant, or the remainder and the      *)
(* later segments are empty), the request is answered 200 with 'Transcript *)
(* ignored - no question provided' and no outbound call is made for it.    *)
(***************************************************************************)
NothingToExtract(segs) ==
    \/ WakeSegments(segs) = {}
    \/ LET i == Min(WakeSegments(segs))
       IN  /\ RemainderAfter(segs[i].text, Matched(segs[i].text)) = ""
           /\ trim(SpaceJoined(segs, i + 1)) = ""

C5_NoQuestionIgnored ==
    \A r \in Reqs :
        LET b == h[r].body
        IN  (Handled(r) /\ ValidBody(b) /\ Scannable(b.segments)
             /\ ContainsWake(SpaceJoined(b.segments, 1))
             /\ NothingToExtract(b.segments))
            => /\ AnsweredWith(r, NoQuestionResponse)
               /\ responses[r][1].status = 200
               /\ responses[r][1].message = "Transcript ignored - no question provided"
               /\ NoOutboundCall(r)

C5_Witness ==
    \E r \in Reqs :
        LET b == h[r].body
        IN  /\ ValidBody(b) /\ WellFormed(b.segments)
            /\ WakeSegments(b.segments) # {}
            /\ Len(b.segments) > Min(WakeSegments(b.segments))
            /\ NothingToExtract(b.segments)
            /\ AnsweredWith(r, NoQuestionResponse)

(***************************************************************************)
(* C6: a request whose session_id is missing or empty, or whose segments   *)
(* are missing or no array, is answered 400 with a JSON error, and no      *)
(* outbound call is made for it.                                           *)
(***************************************************************************)
C6_InvalidBodyRejected ==
    \A r \in Reqs :
        (Handled(r) /\ ~ValidBody(h[r].body))
        => /\ h[r].pc = "done"
           /\ Len(responses[r]) = 1
           /\ responses[r][1].status = 400
           /\ responses[r][1].error # ""
           /\ NoOutboundCall(r)

C6_Witness ==
    \E r \in Reqs :
        /\ h[r].body.has_session_id /\ h[r].body.session_id = ""
        /\ h[r].body.segments_kind = "array"
        /\ ContainsWake(SpaceJoined(h[r].body.segments, 1))
        /\ AnsweredWith(r, BadRequest)

(***************************************************************************)
(* C7: when the notification API answers with a status outside 200..299,   *)
(* the webhook request is answered 500 with a body that contains the       *)
(* upstream status and the upstream body, and the notification request is  *)
(* made once only.                                                         *)
(***************************************************************************)
NotifyCalls(r) == CallsOf(r, "notification")

C7_NotificationFailureIs500 ==
    \A r \in Reqs :
        (h[r].omiReply.status # 0 /\ h[r].omiReply.status \notin 200..299)
        => /\ h[r].pc = "done"
           /\ Len(responses[r]) = 1
           /\ responses[r][1].status = 500
           /\ includes(responses[r][1].message, ToString(h[r].omiReply.status))
           /\ includes(responses[r][1].message, h[r].omiReply.data)
           /\ Cardinality(NotifyCalls(r)) = 1

C7_Witness ==
    \E r \in Reqs :
        /\ h[r].omiReply = [status |-> 401, data |-> "Unauthorized"]
        /\ h[r].pc = "done"
        /\ responses[r][1].status = 500
        /\ responses[r][1].error = "Omi API Error"
        /\ calls[r][Len(calls[r])].op = "notification"
        /\ calls[r][Len(calls[r])].result = "error"

(***************************************************************************)
(* C8: on the answered path the question is extracted, then the answer is  *)
(* obtained, then the notification is sent, then the response: every       *)
(* notification carries an answer that an earlier call returned, no        *)
(* response is sent while the notification is pending, and the response    *)
(* with success: true is sent only after the notification API answered     *)
(* with a status in 200..299.                                              *)
(***************************************************************************)
AnswerOps == {"messages.list", "chat.completions.create"}

C8_AnswerThenNotifyThenRespond ==
    \A r \in Reqs :
        /\ calls[r] # <<>> => h[r].question # ""
        /\ \A k \in NotifyCalls(r) :
            /\ \E j \in 1..(k - 1) :
                /\ calls[r][j].op \in AnswerOps
                /\ calls[r][j].result = "ok"
                /\ calls[r][j].value = calls[r][k].arg
            /\ calls[r][k].result = "pending" => responses[r] = <<>>
        /\ \A i \in 1..Len(responses[r]) :
            responses[r][i].success
            => /\ calls[r] # <<>>
               /\ calls[r][Len(calls[r])].op = "notification"
               /\ calls[r][Len(calls[r])].result = "ok"
               /\ h[r].omiReply.status \in 200..299

C8_Witness ==
    \E r \in Reqs :
        /\ h[r].pc = "done"
        /\ responses[r][1].success
        /\ h[r].submitted
        /\ ~h[r].threw
        /\ h[r].omiReply.status = 299

AssistantOps ==
    {"threads.create", "messages.create", "runs.create", "runs.retrieve",
     "submitToolOutputs", "messages.list"}

AssistantCallThrew(r) ==
    \E k \in 1..Len(calls[r]) :
        calls[r][k].op \in AssistantOps /\ calls[r][k].result = "error"

C10_FallbackOnThrow ==
    \A r \in Reqs :
        AssistantCallThrew(r)
        => /\ Cardinality(CallsOf(r, "chat.completions.create")) = 1
           /\ \A f \in CallsOf(r, "chat.completions.create") :
                /\ calls[r][f].arg = h[r].question
                /\ h[r].question # ""
                /\ calls[r][f - 1].result = "error"
                /\ \A n \in NotifyCalls(r) :
                    /\ n = f + 1
                    /\ calls[r][f].result = "ok"
                    /\ calls[r][n].arg = calls[r][f].value

C10_Witness ==
    \E r \in Reqs :
        /\ h[r].pc = "done"
        /\ responses[r][1].success
        /\ \E k \in CallsOf(r, "submitToolOutputs") : calls[r][k].result = "error"
        /\ \E f \in CallsOf(r, "chat.completions.create") :
            responses[r][1].ai_response = calls[r][f].value

(***************************************************************************)
(* C11: if the run leaves "queued"/"in_progress" in a status other than    *)
(* "completed" and no call threw, the handler asks the single-shot         *)
(* completion; the thread's messages are listed, and the newest one        *)
(* relayed, for a completed run only.                                      *)
(***************************************************************************)
PollStatuses == {"queued", "in_progress"}

\* The poll loops and the tool calls are over, and the run did not complete.
UnfinishedRun(r) ==
    /\ h[r].runStatus \notin PollStatuses \cup {"", "completed"}
    /\ h[r].pc \notin {"performWebSearch", "submitToolOutputs", "runs.retrieve"}

C11_FallbackOnUnfinishedRun ==
    \A r \in Reqs :
        UnfinishedRun(r)
        => /\ CallsOf(r, "messages.list") = {}
           /\ CallsOf(r, "chat.completions.create") # {}

(***************************************************************************)
(* C12, as stated: while the last retrieved run status is "queued" or      *)
(* "in_progress", a status retrieval is pending, nothing was listed,       *)
(* notified or answered, and tool outputs were not submitted (first loop)  *)
(* or were submitted once, before the loop (second loop).                  *)
(***************************************************************************)
PollingOnly(r) ==
    /\ calls[r] # <<>>
    /\ calls[r][Len(calls[r])].op = "runs.retrieve"
    /\ calls[r][Len(calls[r])].result = "pending"
    /\ CallsOf(r, "messages.list") = {}
    /\ CallsOf(r, "notification") = {}
    /\ CallsOf(r, "chat.completions.create") = {}
    /\ Cardinality(CallsOf(r, "submitToolOutputs")) = (IF h[r].submitted THEN 1 ELSE 0)
    /\ responses[r] = <<>>

C12_PollsWhileRunning ==
    \A r \in Reqs : h[r].runStatus \in PollStatuses => PollingOnly(r)

(***************************************************************************)
(* C12, amended: the same, as long as no status retrieval has thrown (a    *)
(* retrieval that throws ends the loop and leads to the fallback           *)
(* completion).                                                            *)
(***************************************************************************)
RetrieveThrew(r) == \E k \in CallsOf(r, "runs.retrieve") : calls[r][k].result = "error"

C12_PollsWhileRunningUnlessThrown ==
    \A r \in Reqs :
        (h[r].runStatus \in PollStatuses /\ ~RetrieveThrew(r)) => PollingOnly(r)

C12_Witness ==
    \E r \in Reqs :
        /\ h[r].runStatus = "in_progress"
        /\ h[r].submitted
        /\ h[r].polls = MaxPolls
        /\ h[r].pc = "runs.retrieve"
        /\ Cardinality(CallsOf(r, "runs.retrieve")) > MaxPolls + 1

(***************************************************************************)
(* C13: when tool outputs are required, one submitToolOutputs call carries *)
(* exactly one output for every tool call named searchWeb and none for the *)
(* others; unparsable arguments or a failing search give the fixed 'Search *)
(* failed' output for that call, and the handler goes on with the next     *)
(* tool call or with the submission.                                       *)
(***************************************************************************)
SearchCalls(r) == {i \in 1..Len(h[r].toolCalls) : h[r].toolCalls[i].name = "searchWeb"}

OutputsFor(r, i) ==
    {j \in 1..Len(h[r].toolOutputs) :
        h[r].toolOutputs[j].tool_call_id = h[r].toolCalls[i].id}

FailedOutputs(r) ==
    {j \in 1..Len(h[r].toolOutputs) : h[r].toolOutputs[j].output = SearchFailedOutput}

FailedSearches(r) ==
    {k \in CallsOf(r, "performWebSearch") : calls[r][k].result = "error"}

UnparsableCalls(r) ==
    {i \in SearchCalls(r) : h[r].toolCalls[i].arguments # GoodArguments}

C13_OneOutputPerSearchCall ==
    \A r \in Reqs :
        LET submits  == CallsOf(r, "submitToolOutputs")
            searches == SearchCalls(r)
            failed   == FailedSearches(r)
        IN  IF h[r].toolCalls = <<>>
            THEN submits = {} /\ h[r].pc # "performWebSearch"
            ELSE /\ Cardinality(submits) <= 1
                 /\ (searches # {} /\ h[r].pc # "performWebSearch") => submits # {}
                 /\ submits # {}
                    => /\ \A i \in 1..Len(h[r].toolCalls) :
                            Cardinality(OutputsFor(r, i)) = (IF i \in searches THEN 1 ELSE 0)
                       /\ Len(h[r].toolOutputs) = Cardinality(searches)
                       /\ \A i \in UnparsableCalls(r) :
                            \A j \in OutputsFor(r, i) :
                                h[r].toolOutputs[j].output = SearchFailedOutput
                       /\ Cardinality(FailedOutputs(r))
                            = Cardinality(UnparsableCalls(r)) + Cardinality(failed)
                 /\ \A k \in failed :
                     /\ k < Len(calls[r])
                     /\ calls[r][k + 1].op \in {"performWebSearch", "submitToolOutputs"}

C13_Witness ==
    \E r \in Reqs :
        /\ CallsOf(r, "submitToolOutputs") # {}
        /\ Len(h[r].toolCalls) = MaxToolCalls
        /\ Cardinality(SearchCalls(r)) = MaxToolCalls
        /\ FailedSearches(r) # {}
        /\ \E j \in 1..Len(h[r].toolOutputs) : h[r].toolOutputs[j].output = "An abstract"
        /\ h[r].toolOutputs[1].output = SearchFailedOutput

(***************************************************************************)
(* C14: when OMI_APP_ID or OMI_APP_SECRET is not set, a request for which  *)
(* an answer was obtained is answered 500 'Configuration Error' with the   *)
(* message '<variable> not set', and no notification request is made.      *)
(***************************************************************************)
ConfigMissing == ~env.OMI_APP_ID \/ ~env.OMI_APP_SECRET

MissingVariable == IF ~env.OMI_APP_ID THEN "OMI_APP_ID" ELSE "OMI_APP_SECRET"

C14_MissingConfigIs500 ==
    \A r \in Reqs :
        ConfigMissing
        => /\ NotifyCalls(r) = {}
           /\ h[r].aiResponse # ""
              => /\ h[r].pc = "done"
                 /\ Len(responses[r]) = 1
                 /\ responses[r][1].status = 500
                 /\ responses[r][1].error = "Configuration Error"
                 /\ responses[r][1].message = MissingVariable \o " not set"

C14_Witness ==
    \E r \in Reqs :
        /\ env.OMI_APP_ID /\ ~env.OMI_APP_SECRET
        /\ h[r].aiResponse \in Answers
        /\ ~h[r].threw
        /\ h[r].pc = "done"
        /\ responses[r][1].error = "Configuration Error"
        /\ responses[r][1].message = "OMI_APP_SECRET not set"

(***************************************************************************)
(* C15: if the fallback completion call fails, the request is answered 500 *)
(* with an error body naming the failure, no notification is sent and no   *)
(* further call is made: the completion is not tried again.                *)
(***************************************************************************)
FailedCompletions(r) ==
    {k \in CallsOf(r, "chat.completions.create") : calls[r][k].result = "error"}

Awaiting(r) ==
    /\ calls[r] # <<>>
    /\ calls[r][Len(calls[r])].result = "pending"
    /\ calls[r][Len(calls[r])].op = h[r].pc

C16_ExactlyOneResponse ==
    \A r \in Reqs :
        /\ Len(responses[r]) <= 1
        /\ h[r].pc = "done" <=> Len(responses[r]) = 1
        /\ h[r].pc \notin {"idle", "done"} => Awaiting(r)
        /\ h[r].pc = "done" => \A k \in 1..Len(calls[r]) : calls[r][k].result # "pending"
        /\ \A i \in 1..Len(responses[r]) :
            /\ responses[r][i].status \in {200, 400, 500}
            /\ responses[r][i].status # 200 => responses[r][i].error # ""

C16_Witness ==
    \E r \in Reqs :
        /\ h[r].pc = "done"
        /\ ValidBody(h[r].body)
        /\ ~WellFormed(h[r].body.segments)
        /\ calls[r] = <<>>
        /\ responses[r][1].status = 500
        /\ responses[r][1].error = "Internal Server Error"

(***************************************************************************)
(* C17: when a question of a session is answered after an earlier question *)
(* of the same session was answered, what is sent to the assistant thread  *)
(* and to the completion for the later question includes the earlier       *)
(* question and its answer.                                                *)
(***************************************************************************)
PromptOps == {"messages.create", "chat.completions.create"}

AnsweredEarlier(first, later) ==
    /\ h[first].pc = "done"
    /\ Len(responses[first]) = 1
    /\ responses[first][1].success
    /\ h[later].body.session_id = h[first].body.session_id
    /\ calls[later] # <<>>

C17_EarlierTurnsInPrompt ==
    AnsweredEarlier("r1", "r2")
    => \A k \in 1..Len(calls["r2"]) :
            calls["r2"][k].op \in PromptOps
            => /\ includes(calls["r2"][k].arg, h["r1"].question)
               /\ includes(calls["r2"][k].arg, h["r1"].aiResponse)

(***************************************************************************)
(* C18: the context of every session is the last MaxTurns turns appended   *)
(* for that session, in the order they were appended: it never holds more  *)
(* than MaxTurns turns, the oldest turn goes when one more is appended,    *)
(* and appends for another session do not touch it.                        *)
(***************************************************************************)
LastTurns(all) ==
    IF Len(all) <= MaxTurns THEN all
    ELSE SubSeq(all, Len(all) - MaxTurns + 1, Len(all))

C18_ContextIsLastTurns ==
    \A s \in SessionIds :
        /\ Len(get(conversations, s)) <= MaxTurns
        /\ get(conversations, s) = LastTurns(appended[s])
        /\ s \in DOMAIN conversations <=> appended[s] # <<>>

C18_Witness ==
    \E s \in SessionIds, t \in SessionIds :
        /\ s # t
        /\ Len(appended[s]) = MaxTurns + 1
        /\ Len(conversations[s]) = MaxTurns
        /\ appended[s][1].question # appended[s][2].question
        /\ conversations[s][1] = appended[s][2]
        /\ \A i \in 1..MaxTurns : conversations[s][i] # appended[s][1]
        /\ Len(appended[t]) = 1
        /\ conversations[t] = appended[t]

(***************************************************************************)
(* C19: when the first segment with a wake phrase starts with a trigger    *)
(* phrase ('hey omi', 'hey, omi', 'hey omi,', 'hey, omi,' in any letter    *)
(* case; the only wake phrase of the segment) followed by question text,   *)
(* the question is the trimmed text behind the longest trigger phrase the  *)
(* segment starts with.                                                    *)
(***************************************************************************)
StartVariants(text) ==
    {v \in WakeVariants :
        Len(v) <= Len(text) /\ toLowerCase(SubSeq(text, 1, Len(v))) = v}

LongestStart(text) ==
    CHOOSE v \in StartVariants(text) : \A u \in StartVariants(text) : Len(u) <= Len(v)

OnlyAtStart(text) == \A o \in Occurrences(text) : o[2] = 0

C19_WholeTriggerRemoved ==
    \A r \in Reqs :
        LET segs == h[r].body.segments
            text == segs[Min(WakeSegments(segs))].text
        IN  (Handled(r) /\ ValidBody(h[r].body) /\ Scannable(segs)
             /\ WakeSegments(segs) # {}
             /\ StartVariants(text) # {} /\ OnlyAtStart(text)
             /\ trim(substring(text, Len(LongestStart(text)))) # "")
            => h[r].question = trim(substring(text, Len(LongestStart(text))))

(***************************************************************************)
(* C20: a request with a session id and a segments array of which some     *)
(* element has no text is answered 400.                                    *)
(***************************************************************************)
C20_MalformedSegmentRejected ==
    \A r \in Reqs :
        (Handled(r) /\ ValidBody(h[r].body) /\ ~WellFormed(h[r].body.segments))
        => /\ h[r].pc = "done"
           /\ Len(responses[r]) = 1
           /\ responses[r][1].status = 400

(***************************************************************************)
(* C21: when the space-joined transcript contains a wake-phrase variant,   *)
(* some segment contains one; and when a wake phrase of the transcript is  *)
(* followed by non-empty text, the request is not answered with 'no        *)
(* question provided'.                                                     *)
(***************************************************************************)
\* The occurrences of the longest variant at their position: the whole
\* wake phrase with its punctuation.
WholeOccurrences(text) ==
    LET occ == Occurrences(text)
    IN  {o \in occ : \A p \in occ : p[2] = o[2] => Len(p[1]) <= Len(o[1])}

C21_DetectorExtractorAgree ==
    \A r \in Reqs :
        LET segs == h[r].body.segments
            joined == SpaceJoined(segs, 1)
        IN  (Handled(r) /\ ValidBody(h[r].body) /\ WellFormed(segs) /\ ContainsWake(joined))
            => /\ WakeSegments(segs) # {}
               /\ (\E o \in WholeOccurrences(joined) : RemainderAfter(joined, o) # "")
                  => ~AnsweredWith(r, NoQuestionResponse)

(***************************************************************************)
(* C28: when the first segment with a wake phrase contains wake phrases at *)
(* more than one position, the question is the trimmed text behind the     *)
(* leftmost one (or, when that is empty, the later segments).              *)
(***************************************************************************)
Positions(text) == {o[2] : o \in Occurrences(text)}

C28_LeftmostOccurrence ==
    \A r \in Reqs :
        LET segs == h[r].body.segments
            i == Min(WakeSegments(segs))
            text == segs[i].text
        IN  (Handled(r) /\ ValidBody(h[r].body) /\ Scannable(segs)
             /\ WakeSegments(segs) # {} /\ Cardinality(Positions(text)) > 1)
            => \E o \in Occurrences(text) :
                /\ o[2] = Min(Positions(text))
                /\ h[r].question =
                      (IF RemainderAfter(text, o) # "" THEN RemainderAfter(text, o)
                       ELSE trim(SpaceJoined(segs, i + 1)))

(***************************************************************************)
(* C27: when OMI_APP_ID or OMI_APP_SECRET is not set, no outbound call is  *)
(* made for a request, and a request with a question is answered with the  *)
(* configuration error.                                                    *)
(***************************************************************************)
C27_ConfigCheckedFirst ==
    \A r \in Reqs :
        ConfigMissing
        => /\ calls[r] = <<>>
           /\ h[r].question # ""
              => /\ h[r].pc = "done"
                 /\ responses[r][1].error = "Configuration Error"

(***************************************************************************)
(* C22: a request whose transcript contains a wake-phrase variant and a    *)
(* help keyword is never answered with the help payload; when a question   *)
(* can be extracted the assistant API is called with it, and the           *)
(* notification is sent once an answer is there.  The help payload is sent *)
(* only for a transcript without wake-phrase variant.                      *)
(***************************************************************************)
HelpSent(r) == \E i \in 1..Len(responses[r]) : responses[r][i].help_response # ""

C22_WakeWinsOverHelp ==
    \A r \in Reqs :
        LET segs == h[r].body.segments
            joined == SpaceJoined(segs, 1)
        IN  /\ HelpSent(r) => ~ContainsWake(joined)
            /\ (Handled(r) /\ ValidBody(h[r].body) /\ Scannable(segs)
                /\ ContainsWake(joined) /\ ContainsHelp(joined) /\ ~NothingToExtract(segs))
               => /\ h[r].question # ""
                  /\ calls[r] # <<>>
                  /\ calls[r][1].op = "threads.create"
                  /\ \A k \in CallsOf(r, "messages.create") : calls[r][k].arg = h[r].question
                  /\ h[r].aiResponse # "" => NotifyCalls(r) # {}
                  /\ h[r].pc = "done" => \E k \in 1..Len(calls[r]) : calls[r][k].op \in AnswerOps

C22_Witness ==
    \E r \in Reqs :
        /\ ContainsHelp(SpaceJoined(h[r].body.segments, 1))
        /\ ContainsWake(SpaceJoined(h[r].body.segments, 1))
        /\ h[r].question = "Help"
        /\ h[r].pc = "done"
        /\ responses[r][1].success
        /\ NotifyCalls(r) # {}

(***************************************************************************)
(* C23: a request that finds no assistant after its question was added to  *)
(* the thread goes on with the fallback completion and, with an answer and *)
(* the credentials, with the notification; and every 500 has one of these  *)
(* causes: the extraction threw, the fallback completion failed, a         *)
(* credential is not set, or the notification failed.                      *)
(***************************************************************************)
NoAssistantSeen(r) ==
    \E k \in CallsOf(r, "messages.create") :
        /\ calls[r][k].result = "ok"
        /\ k < Len(calls[r])
        /\ calls[r][k + 1].op = "chat.completions.create"

NotificationFailed(r) == \E k \in NotifyCalls(r) : calls[r][k].result = "error"

C23_AnsweredWithoutAssistant ==
    \A r \in Reqs :
        /\ (h[r].pc = "done" /\ responses[r][1].status = 500)
           => \/ calls[r] = <<>>
              \/ FailedCompletions(r) # {}
              \/ ConfigMissing /\ responses[r][1].error = "Configuration Error"
              \/ NotificationFailed(r)
        /\ (h[r].threw /\ NoAssistantSeen(r))
           => /\ (h[r].aiResponse # "" /\ ~ConfigMissing) => NotifyCalls(r) # {}
              /\ (h[r].pc = "done" /\ FailedCompletions(r) = {} /\ ~ConfigMissing
                  /\ ~NotificationFailed(r))
                 => responses[r][1].success

C23_Witness ==
    \E r \in Reqs :
        /\ assistant = "null"
        /\ startup = "ready"
        /\ NoAssistantSeen(r)
        /\ h[r].pc = "done"
        /\ responses[r][1].success
        /\ responses[r][1].ai_response \in Answers

(***************************************************************************)
(* C26: for one request there is at most one threads.create, one           *)
(* messages.create, one runs.create, one submitToolOutputs, one            *)
(* messages.list and one chat completion call; the chat completion comes   *)
(* after the assistant path threw, and no call of the assistant path       *)
(* comes after it.                                                         *)
(***************************************************************************)
OnceOps ==
    {"threads.create", "messages.create", "runs.create", "submitToolOutputs",
     "messages.list", "chat.completions.create", "notification"}

C24_EveryRequestAnswered ==
    \A r \in Reqs :
        Handled(r) ~> (h[r].pc = "done" /\ Len(responses[r]) = 1)

C24_Witness ==
    \E r \in Reqs :
        /\ h[r].pc = "done"
        /\ Len(responses[r]) = 1
        /\ h[r].submitted
        /\ h[r].polls = MaxPolls
        /\ Cardinality(CallsOf(r, "runs.retrieve")) = 2 * MaxPolls + 2

(***************************************************************************)
(* C25: with two requests in flight, every call and every response of a    *)
(* request is made of that request's own data: the question is extracted   *)
(* from its own segments, the thread message and the completion carry that *)
(* question, the notification carries its own session_id and the answer    *)
(* one of its own calls returned, and the 200 response reports its own     *)
(* question, answer and session_id.                                        *)
(***************************************************************************)
OwnAnswer(r, text) ==
    \E j \in 1..Len(calls[r]) :
        /\ calls[r][j].op \in AnswerOps
        /\ calls[r][j].result = "ok"
        /\ calls[r][j].value = text

FailedCalls(r) == {k \in 1..Len(calls[r]) : calls[r][k].result = "error"}

\* The notification API answered request r with a status outside 200..299.
UpstreamRejected(r) ==
    /\ h[r].omiReply.status # 0
    /\ ~statusOk(h[r].omiReply.status)

\* C29: in the axios-based variants a downstream call that failed, and in
\* particular a non-2xx answer of the notification API, is answered to the
\* webhook caller with status 500 that carries the upstream status and body,
\* never with the upstream status itself.
C29_DownstreamErrorIs500 ==
    \A r \in Reqs :
        \A i \in 1..Len(responses[r]) :
            /\ FailedCalls(r) # {} => responses[r][i].status = 500
            /\ UpstreamRejected(r)
               => /\ responses[r][i].status # h[r].omiReply.status
                  /\ responses[r][i].details = h[r].omiReply.data

\* The segment the extraction stops at: the first one whose text contains
\* 'hey omi', every segment before it having a text.
WakeSegment(segs) ==
    {i \in 1..Len(segs) :
        /\ \A j \in 1..i : segs[j].hasText
        /\ includes(toLowerCase(segs[i].text), "hey omi")
        /\ \A j \in 1..(i - 1) : ~includes(toLowerCase(segs[j].text), "hey omi")}

\* The trimmed text that starts immediately after the matched 'hey omi'.
AfterWakePhrase(b) ==
    IF IsLegacy(b)
    THEN IF b.has_transcript /\ b.has_user_id /\ b.user_id # ""
            /\ startsWithHeyOmi(b.transcript)
         THEN {trim(substring(b.transcript, Len("hey omi")))}
         ELSE {}
    ELSE IF invalidBody(b) THEN {}
    ELSE {trim(substring(b.segments[i].text,
                         indexOf(toLowerCase(b.segments[i].text), "hey omi")
                           + Len("hey omi"))) : i \in WakeSegment(b.segments)}

\* C30: in the 'hey omi'-only variants the extracted question is the trimmed
\* text of the matched segment from the position immediately after the
\* matched 'hey omi' on, whatever character follows the wake phrase.
C30_QuestionAfterWakePhrase ==
    \A r \in Reqs :
        Handled(r)
        => \A q \in AfterWakePhrase(h[r].body) :
               q # "" => h[r].question = q

====
